---- MODULE Spec2Model ----
(***************************************************************************)
(* PWMReceiver: interrupt-driven capture of PWM pulse widths on up to      *)
(* PINS_COUNT pins (the ISR _handleChange) and their dispatch to per-pin   *)
(* filter / transform / onChange functions from the main loop              *)
(* (lookForChanges).  The ISR is atomic with respect to the main loop; the *)
(* main loop is a sequence of steps between which the ISR may run unless   *)
(* interrupts are switched off.                                            *)
(***************************************************************************)
EXTENDS Integers, Naturals, Sequences, FiniteSets, TLC

PINS_COUNT == 16

\* ---- bounds of the explored environment --------------------------------
\* pins 0 .. NumLowPins-1 and the last pin are wired to a signal
NumLowPins == 2
\* microseconds that pass during one run
MaxElapsed == 4
\* microseconds that pass between two consecutive edges
MaxStep == 1
\* attach and detach calls of the sketch during one run
MaxConfigCalls == 2

Pins == 0 .. (PINS_COUNT - 1)
ActivePins == (0 .. (NumLowPins - 1)) \cup {PINS_COUNT - 1}

\* ---- unsigned long: 32 bits, kept as <<high word, low word>> ------------
WORD == 65536
ULZero == <<0, 0>>
\* "no timestamp" / "no duration" in the bookkeeping of handled edges
NoStamp == <<-1, -1>>
\* micros() when the run starts: two microseconds before it wraps around
ClockStart == <<WORD - 1, WORD - 2>>
\* widths of int among the supported boards (AVR, ARM)
IntWidths == {16, 32}

ULAdd(a, d) ==
  LET lo == a[2] + d
      hi == a[1] + (lo \div WORD)
  IN  <<hi % WORD, lo % WORD>>

ULSub(a, b) ==
  LET lo == a[2] - b[2]
      borrow == IF lo < 0 THEN 1 ELSE 0
      hi == a[1] - b[1] - borrow
  IN  <<(hi + WORD) % WORD, (lo + WORD) % WORD>>

\* ---- bit operations on the flag register -------------------------------
\* x | m and x & m for a mask m that is zero or a single bit
BitOr(x, m) ==
  IF m = 0 \/ (x \div m) % 2 = 1 THEN x ELSE x + m

BitAnd(x, m) ==
  IF m = 0 THEN 0 ELSE ((x \div m) % 2) * m

uint16(x) == x % WORD

\* ---- functions a sketch can install -------------------------------------
\* the three attach call forms the sketch uses
AttachArgs1 == {<<"cbA">>}
AttachArgs2 == {<<"cbB", "gt1">>}
AttachArgs3 == {<<"cbA", "gt1", "inc">>}
\* what reading a function pointer that was never assigned can yield: null
\* (object with static storage) or whatever was in memory before
Indeterminate == {"null", "junk"}

any(value) == TRUE
none(value) == FALSE
identity(value) == value
gt1(value) == value[1] > 0 \/ value[2] > 1
inc(value) == ULAdd(value, 1)

IsFunction(f) == f \notin Indeterminate \cup {"unassigned"}

CallFilter(f, value) ==
  CASE f = "any" -> any(value)
    [] f = "none" -> none(value)
    [] f = "gt1" -> gt1(value)
    [] OTHER -> FALSE

CallTransform(f, value) ==
  CASE f = "identity" -> identity(value)
    [] f = "inc" -> inc(value)
    [] OTHER -> value

VARIABLES
  _onChangeFunctions, _filterFunctions, _transformFunctions,
  _waveStarts, _currentValues, _changedFlags,
  clock, level, enabledPins, intsOff,
  pc, flags, values, pin, onChangeFunc, filterFunc, transformFunc,
  currentValue, transformed,
  elapsed, configCalls, log, riseStamp, lastDur, undelivered,
  dueCount, dueDur, atomic, lastAttach, reattached, detached,
  wired, configCap, isrPin, isrTmp,
  risen, goodDur, fresh, dueGood, dueFresh

registry == <<_onChangeFunctions, _filterFunctions, _transformFunctions>>
latch == <<_waveStarts, _currentValues, _changedFlags>>
platform == <<clock, level, enabledPins, intsOff>>
locals == <<flags, values, pin, onChangeFunc, filterFunc, transformFunc,
            currentValue, transformed>>
capture == <<riseStamp, lastDur, undelivered, risen, goodDur, fresh>>
cycle == <<dueCount, dueDur, atomic, dueGood, dueFresh>>
config == <<lastAttach, reattached, detached>>
\* the run's environment: the pins that carry a signal, the number of attach
\* and detach calls the sketch makes
env == <<wired, configCap>>
\* the ISR that is between two of its statements: its pin (-1: none) and the
\* value of _changedFlags it has read (-1: not yet)
isr == <<isrPin, isrTmp>>
vars == <<registry, latch, platform, pc, locals, elapsed, configCalls,
          log, capture, cycle, config, env, isr>>

\* `2 << pin` in an int of w bits
Shl2(p, w) ==
  LET v == 2 * (2 ^ p)
  IN  IF w = 16 THEN v % WORD ELSE v

\* the register is assigned instead of or-ed
MarkChanged_assign(f, p, w) == uint16(Shl2(p, w))

\* _changedFlags |= 2 << interruptedPin
MarkChanged(f, p, w) == uint16(BitOr(f, Shl2(p, w)))

\* flags & 2 << pin
IsChanged(f, p, w) == BitAnd(f, Shl2(p, w)) # 0

\* the start of the wave is not subtracted
Duration_absolute(now, start) == now

\* a difference that would be negative is stored as zero
Duration_saturating(now, start) ==
  IF now[1] < start[1] \/ (now[1] = start[1] /\ now[2] < start[2])
  THEN ULZero
  ELSE ULSub(now, start)

\* micros() - _waveStarts[interruptedPin]
Duration(now, start) == ULSub(now, start)

NoValues == [p \in Pins |-> ULZero]
NoLocals ==
  /\ flags' = 0
  /\ values' = NoValues
  /\ pin' = 0
  /\ onChangeFunc' = "null"
  /\ filterFunc' = "null"
  /\ transformFunc' = "null"
  /\ currentValue' = ULZero
  /\ transformed' = ULZero

\* the state after construction and static initialisation, for a sketch whose
\* signal lines are pinsWired and which makes at most cap attach/detach calls
Start(pinsWired, cap) ==
  /\ _onChangeFunctions = [p \in Pins |-> "unassigned"]
  /\ _filterFunctions = [p \in Pins |-> "unassigned"]
  /\ _transformFunctions = [p \in Pins |-> "unassigned"]
  /\ _waveStarts = [p \in Pins |-> ULZero]
  /\ _currentValues = [p \in Pins |-> ULZero]
  /\ _changedFlags = 0
  /\ clock = ClockStart
  /\ level = [p \in Pins |-> 0]
  /\ enabledPins = {}
  /\ intsOff = FALSE
  /\ pc = "idle"
  /\ flags = 0
  /\ values = NoValues
  /\ pin = 0
  /\ onChangeFunc = "null"
  /\ filterFunc = "null"
  /\ transformFunc = "null"
  /\ currentValue = ULZero
  /\ transformed = ULZero
  /\ elapsed = 0
  /\ configCalls = 0
  /\ log = <<>>
  /\ riseStamp = [p \in Pins |-> NoStamp]
  /\ lastDur = [p \in Pins |-> NoStamp]
  /\ undelivered = [p \in Pins |-> 0]
  /\ dueCount = [p \in Pins |-> 0]
  /\ dueDur = [p \in Pins |-> NoStamp]
  /\ atomic = <<0, NoValues>>
  /\ lastAttach = [p \in Pins |-> <<>>]
  /\ reattached = [p \in Pins |-> FALSE]
  /\ detached = [p \in Pins |-> FALSE]
  /\ wired = pinsWired
  /\ configCap = cap
  /\ isrPin = -1
  /\ isrTmp = -1
  /\ risen = [p \in Pins |-> FALSE]
  /\ goodDur = [p \in Pins |-> NoStamp]
  /\ fresh = [p \in Pins |-> FALSE]
  /\ dueGood = [p \in Pins |-> NoStamp]
  /\ dueFresh = [p \in Pins |-> FALSE]

Init == Start(ActivePins, MaxConfigCalls)

\* ---- the ISR -------------------------------------------------------------
\* the value slot is cleared when a wave starts
_handleChange_clearsOnRise(interruptedPin, pinState, now, w) ==
  IF pinState > 0
  THEN /\ _waveStarts' = [_waveStarts EXCEPT ![interruptedPin] = now]
       /\ _currentValues' = [_currentValues EXCEPT ![interruptedPin] = ULZero]
       /\ UNCHANGED _changedFlags
  ELSE /\ _currentValues' = [_currentValues EXCEPT
                               ![interruptedPin] = Duration(now, _waveStarts[interruptedPin])]
       /\ _changedFlags' = MarkChanged(_changedFlags, interruptedPin, w)
       /\ UNCHANGED _waveStarts

\* the channel is marked as changed on the rising edge as well
_handleChange_marksOnRise(interruptedPin, pinState, now, w) ==
  IF pinState > 0
  THEN /\ _waveStarts' = [_waveStarts EXCEPT ![interruptedPin] = now]
       /\ _changedFlags' = MarkChanged(_changedFlags, interruptedPin, w)
       /\ UNCHANGED _currentValues
  ELSE /\ _currentValues' = [_currentValues EXCEPT
                               ![interruptedPin] = Duration(now, _waveStarts[interruptedPin])]
       /\ _changedFlags' = MarkChanged(_changedFlags, interruptedPin, w)
       /\ UNCHANGED _waveStarts

_handleChange(interruptedPin, pinState, now, w) ==
  IF pinState > 0
  THEN /\ _waveStarts' = [_waveStarts EXCEPT ![interruptedPin] = now]
       /\ UNCHANGED <<_currentValues, _changedFlags>>
  ELSE /\ _currentValues' = [_currentValues EXCEPT
                               ![interruptedPin] = Duration(now, _waveStarts[interruptedPin])]
       /\ _changedFlags' = MarkChanged(_changedFlags, interruptedPin, w)
       /\ UNCHANGED _waveStarts

Min(a, b) == IF a < b THEN a ELSE b

\* a level transition on the line of a pin whose interrupt is enabled, d
\* microseconds after the previous interrupt: the ISR runs
Edge(p, d) ==
  /\ ~intsOff
  /\ p \in enabledPins
  /\ elapsed + d <= MaxElapsed
  /\ elapsed' = elapsed + d
  /\ clock' = ULAdd(clock, d)
  /\ level' = [level EXCEPT ![p] = 1 - level[p]]
  /\ \E w \in IntWidths : _handleChange(p, level'[p], clock', w)
  /\ IF level'[p] > 0
     THEN /\ riseStamp' = [riseStamp EXCEPT ![p] = clock']
          /\ risen' = [risen EXCEPT ![p] = TRUE]
          /\ UNCHANGED <<lastDur, undelivered, goodDur, fresh>>
     ELSE /\ lastDur' = [lastDur EXCEPT ![p] =
                          IF riseStamp[p] = NoStamp THEN NoStamp
                          ELSE ULSub(clock', riseStamp[p])]
          /\ undelivered' = [undelivered EXCEPT ![p] = Min(2, undelivered[p] + 1)]
          /\ goodDur' = [goodDur EXCEPT ![p] =
                          IF risen[p] THEN ULSub(clock', riseStamp[p]) ELSE NoStamp]
          /\ fresh' = [fresh EXCEPT ![p] = TRUE]
          /\ UNCHANGED <<riseStamp, risen>>
  /\ UNCHANGED <<registry, enabledPins, intsOff, pc, locals, configCalls,
                 log, cycle, config>>
  /\ UNCHANGED <<env, isr>>

\* ---- attach / detach (called from the sketch between lookForChanges calls)
\* the filter of an earlier attach is kept
attach3_keepsFilter(arduinoPin, onChangeFn, filterFn, transformFn) ==
  /\ enabledPins' = enabledPins \cup {arduinoPin}
  /\ _onChangeFunctions' = [_onChangeFunctions EXCEPT ![arduinoPin] = onChangeFn]
  /\ _filterFunctions' = [_filterFunctions EXCEPT ![arduinoPin] =
                            IF arduinoPin \in enabledPins THEN @ ELSE filterFn]
  /\ _transformFunctions' = [_transformFunctions EXCEPT ![arduinoPin] = transformFn]

attach3(arduinoPin, onChangeFn, filterFn, transformFn) ==
  /\ enabledPins' = enabledPins \cup {arduinoPin}
  /\ _onChangeFunctions' = [_onChangeFunctions EXCEPT ![arduinoPin] = onChangeFn]
  /\ _filterFunctions' = [_filterFunctions EXCEPT ![arduinoPin] = filterFn]
  /\ _transformFunctions' = [_transformFunctions EXCEPT ![arduinoPin] = transformFn]

attach2(arduinoPin, onChangeFn, filterFn) ==
  attach3(arduinoPin, onChangeFn, filterFn, "identity")

attach1(arduinoPin, onChangeFn) ==
  attach2(arduinoPin, onChangeFn, "any")

\* the interrupt is disabled but the functions stay installed
detach_keepsFunctions(arduinoPin) ==
  /\ enabledPins' = enabledPins \ {arduinoPin}
  /\ UNCHANGED registry

detach(arduinoPin) ==
  /\ enabledPins' = enabledPins \ {arduinoPin}
  /\ _onChangeFunctions' = [_onChangeFunctions EXCEPT ![arduinoPin] = "_void"]
  /\ _filterFunctions' = [_filterFunctions EXCEPT ![arduinoPin] = "none"]
  /\ _transformFunctions' = [_transformFunctions EXCEPT ![arduinoPin] = "identity"]

\* the level of a line is tracked while its interrupt is enabled; lv is the
\* level the line has when the interrupt gets enabled
Attached(p, args) ==
  /\ \E lv \in {0, 1} :
       level' = [level EXCEPT ![p] = IF p \in enabledPins THEN level[p] ELSE lv]
  /\ lastAttach' = [lastAttach EXCEPT ![p] = args]
  /\ reattached' = [reattached EXCEPT ![p] = p \in enabledPins]
  /\ detached' = [detached EXCEPT ![p] = FALSE]
  /\ configCalls < configCap
  /\ configCalls' = configCalls + 1
  /\ UNCHANGED <<latch, clock, intsOff, pc, locals, elapsed,
                 log, capture, cycle>>
  /\ UNCHANGED <<env, isr>>

Attach1(p) ==
  /\ pc = "idle"
  /\ \E a \in AttachArgs1 : attach1(p, a[1]) /\ Attached(p, a)

Attach2(p) ==
  /\ pc = "idle"
  /\ \E a \in AttachArgs2 : attach2(p, a[1], a[2]) /\ Attached(p, a)

Attach3(p) ==
  /\ pc = "idle"
  /\ \E a \in AttachArgs3 : attach3(p, a[1], a[2], a[3]) /\ Attached(p, a)

Detach(p) ==
  /\ pc = "idle"
  /\ detach(p)
  /\ detached' = [detached EXCEPT ![p] = TRUE]
  /\ lastAttach' = [lastAttach EXCEPT ![p] = <<>>]
  /\ reattached' = [reattached EXCEPT ![p] = FALSE]
  /\ level' = [level EXCEPT ![p] = 0]
  /\ risen' = [risen EXCEPT ![p] = FALSE]
  /\ goodDur' = [goodDur EXCEPT ![p] = NoStamp]
  /\ fresh' = [fresh EXCEPT ![p] = FALSE]
  /\ configCalls < configCap
  /\ configCalls' = configCalls + 1
  /\ UNCHANGED <<latch, clock, intsOff, pc, locals, elapsed,
                 log, riseStamp, lastDur, undelivered, cycle>>
  /\ UNCHANGED <<env, isr>>

\* ---- lookForChanges -------------------------------------------------------
\* the interrupts stay enabled during the copy
NoInterrupts_missing == FALSE

\* value of the interrupt mask after noInterrupts()
NoInterrupts == TRUE

\* the loop does not advance
NextPin_stuck(p) == p

\* pin++
NextPin(p) == p + 1

\* the result of the filter is ignored
FilterPassed_always(result) == TRUE

\* the if around the onChange call
FilterPassed(result) == result

RECURSIVE NextChanged(_, _, _)
NextChanged(f, p, w) ==
  IF p >= PINS_COUNT THEN PINS_COUNT
  ELSE IF IsChanged(f, p, w) THEN p
  ELSE NextChanged(f, p + 1, w)

Entry(p, k, f, a, ok, out) ==
  [pin |-> p, kind |-> k, fn |-> f, arg |-> a, ok |-> ok, out |-> out]

NoDue ==
  /\ dueCount' = [p \in Pins |-> 0]
  /\ dueDur' = [p \in Pins |-> NoStamp]
  /\ dueGood' = [p \in Pins |-> NoStamp]
  /\ dueFresh' = [p \in Pins |-> FALSE]

TakeDue ==
  /\ dueCount' = undelivered
  /\ dueDur' = lastDur
  /\ undelivered' = [p \in Pins |-> 0]
  /\ dueGood' = goodDur
  /\ dueFresh' = fresh
  /\ fresh' = [p \in Pins |-> FALSE]
  /\ UNCHANGED <<riseStamp, lastDur, risen, goodDur>>

\* the test of line 105 is skipped: every call takes the critical section
LFC_Enter_noFastPath ==
  /\ pc = "idle"
  /\ pc' = "L107"
  /\ UNCHANGED <<capture, cycle>>
  /\ UNCHANGED <<registry, latch, platform, locals, elapsed, configCalls, log,
                 config>>
  /\ UNCHANGED <<env, isr>>

\* line 105: the unsynchronised test of _changedFlags
LFC_Enter ==
  /\ pc = "idle"
  /\ IF _changedFlags # 0
     THEN /\ pc' = "L107"
          /\ UNCHANGED <<capture, cycle>>
     ELSE /\ pc' = "ret"
          /\ TakeDue
          /\ UNCHANGED atomic
  /\ UNCHANGED <<registry, latch, platform, locals, elapsed, configCalls, log,
                 config>>
  /\ UNCHANGED <<env, isr>>

\* line 107
LFC_NoInterrupts ==
  /\ pc = "L107"
  /\ intsOff' = NoInterrupts
  /\ TakeDue
  /\ atomic' = <<_changedFlags, _currentValues>>
  /\ pc' = "L110"
  /\ UNCHANGED <<registry, latch, clock, level, enabledPins, locals,
                 elapsed, configCalls, log, config>>
  /\ UNCHANGED <<env, isr>>

\* line 110
LFC_CopyFlags ==
  /\ pc = "L110"
  /\ flags' = _changedFlags
  /\ pc' = "L112"
  /\ UNCHANGED <<registry, latch, platform, values, pin, onChangeFunc,
                 filterFunc, transformFunc, currentValue, transformed,
                 elapsed, configCalls, log, capture, cycle, config>>
  /\ UNCHANGED <<env, isr>>

\* lines 111-112
LFC_CopyValues ==
  /\ pc = "L112"
  /\ values' = _currentValues
  /\ pc' = "L115"
  /\ UNCHANGED <<registry, latch, platform, flags, pin, onChangeFunc,
                 filterFunc, transformFunc, currentValue, transformed,
                 elapsed, configCalls, log, capture, cycle, config>>
  /\ UNCHANGED <<env, isr>>

\* the register is not reset after the copy
LFC_Reset_missing ==
  /\ pc = "L115"
  /\ pc' = "L118"
  /\ UNCHANGED <<registry, latch, platform, locals,
                 elapsed, configCalls, log, capture, cycle, config>>
  /\ UNCHANGED <<env, isr>>

\* line 115
LFC_Reset ==
  /\ pc = "L115"
  /\ _changedFlags' = 0
  /\ pc' = "L118"
  /\ UNCHANGED <<registry, _waveStarts, _currentValues, platform, locals,
                 elapsed, configCalls, log, capture, cycle, config>>
  /\ UNCHANGED <<env, isr>>

\* line 118
LFC_Interrupts ==
  /\ pc = "L118"
  /\ intsOff' = FALSE
  /\ pin' = 0
  /\ pc' = "L121"
  /\ atomic' = <<0, NoValues>>
  /\ UNCHANGED <<registry, latch, clock, level, enabledPins, flags,
                 values, onChangeFunc, filterFunc, transformFunc,
                 currentValue, transformed, elapsed, configCalls, log, capture, dueCount,
                 dueDur, dueGood, dueFresh, config>>
  /\ UNCHANGED <<env, isr>>

\* the value a read of a function pointer array slot yields
Load(slot, v) == IF slot = "unassigned" THEN v \in Indeterminate ELSE v = slot

\* lines 121-128: advance to the next pin whose flag is set, load its
\* functions and value and call its filter, or leave the loop
LFC_Loop ==
  /\ pc = "L121"
  /\ \E w \in IntWidths :
     LET np == NextChanged(flags, pin, w)
     IN  IF np >= PINS_COUNT
         THEN /\ pc' = "ret"
              /\ NoLocals
              /\ UNCHANGED log
         ELSE \E oc \in Indeterminate \cup {_onChangeFunctions[np]},
                 ff \in Indeterminate \cup {_filterFunctions[np]},
                 tf \in Indeterminate \cup {_transformFunctions[np]} :
              /\ Load(_onChangeFunctions[np], oc)
              /\ Load(_filterFunctions[np], ff)
              /\ Load(_transformFunctions[np], tf)
              /\ onChangeFunc' = oc
              /\ filterFunc' = ff
              /\ transformFunc' = tf
              /\ currentValue' = values[np]
              /\ UNCHANGED <<flags, values, transformed>>
              /\ IF ~IsFunction(ff)
                 THEN /\ pc' = "fault"
                      /\ pin' = np
                      /\ UNCHANGED log
                 ELSE LET result == CallFilter(ff, values[np])
                      IN  /\ log' = Append(log, Entry(np, "filter", ff, values[np],
                                                      result, values[np]))
                          /\ IF FilterPassed(result)
                             THEN pc' = "L129" /\ pin' = np
                             ELSE pc' = "L121" /\ pin' = NextPin(np)
  /\ UNCHANGED <<registry, latch, platform, elapsed, configCalls, capture,
                 cycle, config>>
  /\ UNCHANGED <<env, isr>>

\* line 129: (*onChangeFunc)((*transformFunc)(currentValue))
LFC_OnChange ==
  /\ pc = "L129"
  /\ IF ~IsFunction(transformFunc) \/ ~IsFunction(onChangeFunc)
     THEN /\ pc' = "fault"
          /\ UNCHANGED <<pin, transformed, log>>
     ELSE /\ transformed' = CallTransform(transformFunc, currentValue)
          /\ log' = log \o
               << Entry(pin, "transform", transformFunc, currentValue, TRUE,
                        transformed'),
                  Entry(pin, "onChange", onChangeFunc, transformed', TRUE,
                        transformed') >>
          /\ pin' = NextPin(pin)
          /\ pc' = "L121"
  /\ UNCHANGED <<registry, latch, platform, flags, values, onChangeFunc,
                 filterFunc, transformFunc, currentValue, elapsed, configCalls,
                 capture, cycle, config>>
  /\ UNCHANGED <<env, isr>>

\* lookForChanges has returned to loop()
LFC_Return ==
  /\ pc = "ret"
  /\ pc' = "idle"
  /\ log' = <<>>
  /\ NoDue
  /\ UNCHANGED <<registry, latch, platform, locals, elapsed, configCalls, capture, atomic,
                 config>>
  /\ UNCHANGED <<env, isr>>

Next ==
  \/ \E p \in wired, d \in 1 .. MaxStep : Edge(p, d)
  \/ \E p \in wired : Attach1(p)
  \/ \E p \in wired : Attach2(p)
  \/ \E p \in wired : Attach3(p)
  \/ \E p \in wired : Detach(p)
  \/ LFC_Enter
  \/ LFC_NoInterrupts
  \/ LFC_CopyFlags
  \/ LFC_CopyValues
  \/ LFC_Reset
  \/ LFC_Interrupts
  \/ LFC_Loop
  \/ LFC_OnChange
  \/ LFC_Return

Spec == Init /\ [][Next]_vars

\* ---- ISRs of different pins that preempt each other -----------------------
\* The falling-edge branch of _handleChange, one statement per step, for a
\* platform whose pin-change interrupts nest: line 149 stores the duration,
\* line 150 reads _changedFlags and then writes it back with the bit or-ed in.
LowPins == 0 .. (NumLowPins - 1)

\* line 149, entered on a falling edge of pin p
IsrEnter(p, d) ==
  /\ isrPin = -1
  /\ ~intsOff
  /\ p \in enabledPins
  /\ level[p] = 1
  /\ elapsed + d <= MaxElapsed
  /\ elapsed' = elapsed + d
  /\ clock' = ULAdd(clock, d)
  /\ level' = [level EXCEPT ![p] = 0]
  /\ _currentValues' = [_currentValues EXCEPT ![p] = Duration(clock', _waveStarts[p])]
  /\ lastDur' = [lastDur EXCEPT ![p] =
                   IF riseStamp[p] = NoStamp THEN NoStamp
                   ELSE ULSub(clock', riseStamp[p])]
  /\ undelivered' = [undelivered EXCEPT ![p] = Min(2, undelivered[p] + 1)]
  /\ goodDur' = [goodDur EXCEPT ![p] =
                   IF risen[p] THEN ULSub(clock', riseStamp[p]) ELSE NoStamp]
  /\ fresh' = [fresh EXCEPT ![p] = TRUE]
  /\ isrPin' = p
  /\ isrTmp' = -1
  /\ UNCHANGED <<registry, _waveStarts, _changedFlags, enabledPins, intsOff,
                 pc, locals, configCalls, log, riseStamp, risen, cycle, config,
                 env>>

\* line 150, the read of _changedFlags
IsrReadFlags ==
  /\ isrPin # -1
  /\ isrTmp = -1
  /\ isrTmp' = _changedFlags
  /\ UNCHANGED <<registry, latch, platform, pc, locals, elapsed, configCalls,
                 log, capture, cycle, config, env, isrPin>>

\* line 150, the write-back, and the return of the ISR
IsrWriteFlags ==
  /\ isrPin # -1
  /\ isrTmp # -1
  /\ \E w \in IntWidths : _changedFlags' = MarkChanged(isrTmp, isrPin, w)
  /\ isrPin' = -1
  /\ isrTmp' = -1
  /\ UNCHANGED <<registry, _waveStarts, _currentValues, platform, pc, locals,
                 elapsed, configCalls, log, capture, cycle, config, env>>

\* the polling context runs only while no ISR is active; the ISR of another
\* pin runs to completion inside an active one
NextNested ==
  \/ \E p \in wired, d \in 1 .. MaxStep : p # isrPin /\ Edge(p, d)
  \/ \E p \in wired, d \in 1 .. MaxStep : IsrEnter(p, d)
  \/ IsrReadFlags
  \/ IsrWriteFlags
  \/ \E p \in wired : isrPin = -1 /\ Attach1(p)
  \/ \E p \in wired : isrPin = -1 /\ Attach2(p)
  \/ \E p \in wired : isrPin = -1 /\ Attach3(p)
  \/ \E p \in wired : isrPin = -1 /\ Detach(p)
  \/ isrPin = -1 /\ LFC_Enter
  \/ isrPin = -1 /\ LFC_NoInterrupts
  \/ isrPin = -1 /\ LFC_CopyFlags
  \/ isrPin = -1 /\ LFC_CopyValues
  \/ isrPin = -1 /\ LFC_Reset
  \/ isrPin = -1 /\ LFC_Interrupts
  \/ isrPin = -1 /\ LFC_Loop
  \/ isrPin = -1 /\ LFC_OnChange
  \/ isrPin = -1 /\ LFC_Return

InitNested == Start(LowPins, MaxConfigCalls)

SpecNested == InitNested /\ [][NextNested]_vars

\* ---- a sketch with one signal line that detaches and attaches again -------
InitOnePin == Start({0}, MaxConfigCalls + 1)

SpecOnePin == InitOnePin /\ [][Next]_vars

\* ---- properties -----------------------------------------------------------
Callbacks == {"cbA", "cbB"}

Entries(c, k) == {i \in 1 .. Len(log) : log[i].pin = c /\ log[i].kind = k}

\* a pulse with a handled rising edge completed on c before the snapshot of
\* the call that has just returned, and c is attached with a filter that
\* accepts the pulse's duration
DueAccepted(c) ==
  /\ dueCount[c] >= 1
  /\ dueDur[c] # NoStamp
  /\ c \in enabledPins
  /\ CallFilter(_filterFunctions[c], dueDur[c])

\* C1: for every pin c in 0 .. PINS_COUNT-1 that is attached with an accepting
\* filter and on which a rising and then a falling edge were handled, the
\* lookForChanges() call that follows invokes c's onChange exactly once.
C1_DeliveredOnce ==
  pc = "ret" =>
    \A c \in Pins : DueAccepted(c) => Cardinality(Entries(c, "onChange")) = 1

\* C2: when two pulses completed on an attached pin between two
\* lookForChanges() calls, the second call invokes the pin's onChange exactly
\* once and passes it the (transformed) duration of the later pulse.
C2_LatestWins ==
  pc = "ret" =>
    \A c \in Pins :
      (DueAccepted(c) /\ dueCount[c] = 2) =>
        /\ Cardinality(Entries(c, "onChange")) = 1
        /\ \A i \in Entries(c, "onChange") :
             log[i].arg = CallTransform(_transformFunctions[c], dueDur[c])

\* C3: between noInterrupts() and interrupts() the shared pair
\* (_changedFlags, _currentValues) stays what it was at noInterrupts(), the
\* local pair (flags, values) is a copy of it, and the reset clears exactly
\* the flags that were copied.
C3_SnapshotAtomic ==
  /\ pc \in {"L110", "L112", "L115"} => <<_changedFlags, _currentValues>> = atomic
  /\ pc \in {"L112", "L115", "L118"} => flags = atomic[1]
  /\ pc \in {"L115", "L118"} => values = atomic[2]
  /\ pc = "L118" => _changedFlags = 0 /\ _currentValues = atomic[2]

\* the copy has been taken while a pulse was pending and a wave was running
C3_Witness ==
  /\ pc = "L118"
  /\ flags # 0
  /\ \E c \in Pins : values[c] # ULZero /\ \E w \in IntWidths : IsChanged(flags, c, w)
  /\ \E c \in enabledPins : level[c] = 1

\* the step is the ISR handling an edge on pin a
EdgeOn(a) == level'[a] # level[a] /\ configCalls' = configCalls

\* bit b of the register x
Bit(x, b) == (x \div (2 ^ b)) % 2

\* C4: handling an edge on pin A leaves, for every other pin B, B's dirty
\* bit, B's slot of _currentValues and of _waveStarts unchanged, and leaves
\* unchanged everything the dispatch of B depends on (B's functions, the
\* copies lookForChanges works on, the calls made so far).
C4_Isolation ==
  [][\A a \in Pins :
       EdgeOn(a) =>
         /\ \A b \in Pins \ {a} :
              /\ \A w \in IntWidths :
                   IsChanged(_changedFlags', b, w) = IsChanged(_changedFlags, b, w)
              /\ Bit(_changedFlags', b + 1) = Bit(_changedFlags, b + 1)
              /\ _currentValues'[b] = _currentValues[b]
              /\ _waveStarts'[b] = _waveStarts[b]
         /\ registry' = registry
         /\ locals' = locals
         /\ log' = log]_vars

\* pulses are pending on two pins at once
C4_Witness ==
  \E a, b \in Pins :
    /\ a # b
    /\ undelivered[a] > 0 /\ undelivered[b] > 0
    /\ \E w \in IntWidths : IsChanged(_changedFlags, a, w)
    /\ _currentValues[a] # ULZero /\ _currentValues[b] # ULZero

\* C5: while pin c is detached, lookForChanges() never invokes a callback of
\* the sketch for c, also when c's dirty bit was set at the time of detach.
C5_DetachedSilent ==
  \A i \in 1 .. Len(log) :
    (log[i].kind = "onChange" /\ detached[log[i].pin]) => log[i].fn \notin Callbacks

\* the pending pulse of a detached pin has been run through the filter
C5_Witness ==
  \E i \in 1 .. Len(log) :
    /\ detached[log[i].pin]
    /\ log[i].kind = "filter"
    /\ dueCount[log[i].pin] >= 1

\* C6: a pin that was never attached holds the default triplet (filter none,
\* transform identity, callback _void), and lookForChanges() runs no function
\* for it.
C6_DefaultTriplet ==
  \A c \in Pins :
    (lastAttach[c] = <<>>) =>
      /\ _filterFunctions[c] = "none"
      /\ _transformFunctions[c] = "identity"
      /\ _onChangeFunctions[c] = "_void"
      /\ \A i \in 1 .. Len(log) : log[i].pin = c => log[i].fn \notin Callbacks

\* C7: an onChange call is preceded, in the same lookForChanges() call, by a
\* call of the pin's filter on the copied value that returned true; and
\* every pin dispatched in a call completed a pulse since the previous copy
\* (a rejected pulse is consumed, not kept for a later call).
C7_FilterGating ==
  /\ \A i \in 1 .. Len(log) :
       log[i].kind = "onChange" =>
         \E j \in 1 .. (i - 1) :
           /\ log[j].pin = log[i].pin
           /\ log[j].kind = "filter"
           /\ log[j].ok
           /\ pc \in {"L121", "L129"} => log[j].arg = values[log[j].pin]
  /\ \A i \in 1 .. Len(log) : dueCount[log[i].pin] >= 1

\* the filter of the sketch has rejected a pulse and the call has gone on
C7_Witness ==
  /\ pc = "ret"
  /\ \E i \in 1 .. Len(log) :
       /\ log[i].kind = "filter"
       /\ log[i].fn = "gt1"
       /\ ~log[i].ok
       /\ Entries(log[i].pin, "onChange") = {}

\* C8: with transform identity, the value passed to onChange is the time of
\* the falling edge minus the time of the latest rising edge handled on the
\* pin before it.
C8_IdentityExact ==
  \A i \in 1 .. Len(log) :
    LET c == log[i].pin
    IN  (/\ log[i].kind = "onChange"
         /\ _transformFunctions[c] = "identity"
         /\ dueDur[c] # NoStamp) => log[i].arg = dueDur[c]

\* a measured pulse has been passed on through identity
C8_Witness ==
  \E i \in 1 .. Len(log) :
    /\ log[i].kind = "onChange"
    /\ _transformFunctions[log[i].pin] = "identity"
    /\ dueDur[log[i].pin] # NoStamp
    /\ log[i].arg # ULZero

\* C9: within one lookForChanges() call the pins are dispatched in ascending
\* order, each at most once, and for each pin the calls are filter, then
\* transform, then onChange.
C9_Ordering ==
  /\ \A i, j \in 1 .. Len(log) :
       (i < j /\ log[i].kind = "filter" /\ log[j].kind = "filter") =>
         log[i].pin < log[j].pin
  /\ \A i \in 1 .. Len(log) :
       /\ log[i].kind = "transform" =>
            i > 1 /\ log[i - 1].kind = "filter" /\ log[i - 1].pin = log[i].pin
       /\ log[i].kind = "onChange" =>
            i > 1 /\ log[i - 1].kind = "transform" /\ log[i - 1].pin = log[i].pin
  /\ \A c \in Pins : Cardinality(Entries(c, "onChange")) <= 1

\* two pins have been dispatched in one call, one of them after two pulses
C9_Witness ==
  \E a, b \in Pins :
    /\ a < b
    /\ Entries(a, "onChange") # {} /\ Entries(b, "onChange") # {}
    /\ dueCount[a] = 2 \/ dueCount[b] = 2

\* the function the latest attach(c, ...) installed for calls of kind k
Installed(c, k) ==
  LET a == lastAttach[c]
  IN  CASE k = "onChange" -> a[1]
        [] k = "filter" -> IF Len(a) >= 2 THEN a[2] ELSE "any"
        [] k = "transform" -> IF Len(a) >= 3 THEN a[3] ELSE "identity"

\* C10: every function lookForChanges() calls for an attached pin is the one
\* the most recent attach installed (any and identity where that attach
\* passed no filter or no transform).
C10_ReattachReplaces ==
  \A i \in 1 .. Len(log) :
    lastAttach[log[i].pin] # <<>> => log[i].fn = Installed(log[i].pin, log[i].kind)

\* a pin attached a second time has been dispatched down to onChange
C10_Witness ==
  \E i \in 1 .. Len(log) :
    /\ reattached[log[i].pin]
    /\ log[i].kind = "onChange"

\* the step is the ISR handling a falling / a rising edge on pin c
FallingOn(c) == level[c] = 1 /\ level'[c] = 0 /\ configCalls' = configCalls
RisingOn(c) == level[c] = 0 /\ level'[c] = 1 /\ configCalls' = configCalls

\* C11: after the ISR has handled a falling edge on pin c, for every c in
\* 0 .. PINS_COUNT-1, the register _changedFlags is non-zero, the test
\* `flags & 2 << c` is true of it, and _currentValues[c] is the time of the
\* edge minus _waveStarts[c].
C11_FallingMarks ==
  [][\A c \in Pins :
       FallingOn(c) =>
         /\ _changedFlags' # 0
         /\ \A w \in IntWidths : IsChanged(_changedFlags', c, w)
         /\ _currentValues'[c] = ULSub(clock', _waveStarts[c])]_vars

\* a falling edge has been handled on c since the flags were last copied
Completed(c) ==
  \/ undelivered[c] >= 1
  \/ pc \in {"L110", "L112", "L115"} /\ dueCount[c] >= 1

\* C12: whenever pin c's dirty bit is set, a falling edge has been handled on
\* c since the last copy and _currentValues[c] is the duration of the latest
\* completed pulse, also while the next wave is running.
C12_DirtyMeansCompleted ==
  \A c \in Pins :
    (\E w \in IntWidths : IsChanged(_changedFlags, c, w)) =>
      /\ Completed(c)
      /\ lastDur[c] # NoStamp => _currentValues[c] = lastDur[c]

\* the dirty bit of a pin is set while the pin's next wave is running
C12_Witness ==
  \E c \in Pins :
    /\ \E w \in IntWidths : IsChanged(_changedFlags, c, w)
    /\ level[c] = 1
    /\ lastDur[c] # NoStamp
    /\ _waveStarts[c] # ULSub(clock, lastDur[c])
    /\ _currentValues[c] # ULZero

\* C13: whenever no ISR is active, every channel on which a falling edge has
\* been handled since the flags were last copied has its dirty bit set and its
\* own duration in its value slot, also when the ISRs of two channels have
\* interleaved.
C13_NoLostBit ==
  isrPin = -1 =>
    \A c \in Pins :
      Completed(c) =>
        /\ \A w \in IntWidths : IsChanged(_changedFlags, c, w)
        /\ lastDur[c] # NoStamp => _currentValues[c] = lastDur[c]

\* the dispatch loop of lookForChanges is executing
Dispatching == pc \in {"L121", "L129"}

\* C14: interrupts are on while the dispatch loop runs; a falling edge handled
\* on any attached channel c during the loop stores c's duration and sets c's
\* dirty bit, and no step of the running cycle after interrupts() clears a
\* dirty bit.
C14_CapturedDuringDispatch ==
  [][/\ Dispatching => ~intsOff
     /\ \A c \in Pins :
          /\ (Dispatching /\ FallingOn(c)) =>
               /\ _currentValues'[c] = ULSub(clock', _waveStarts[c])
               /\ \A w \in IntWidths : IsChanged(_changedFlags', c, w)
          /\ (pc \in {"L121", "L129", "ret"} /\ pc' # pc) =>
               \A w \in IntWidths :
                 IsChanged(_changedFlags, c, w) => IsChanged(_changedFlags', c, w)]_vars

\* C15: a lookForChanges call that finds _changedFlags empty at line 105
\* returns at once: no filter, transform or callback is invoked, interrupts stay
\* on, and _changedFlags, _currentValues, _waveStarts and the three function
\* arrays are left as they were.
C15_FastPath ==
  [][(pc = "idle" /\ pc' # "idle" /\ _changedFlags = 0) =>
       /\ pc' = "ret"
       /\ log' = <<>>
       /\ ~intsOff'
       /\ latch' = latch
       /\ registry' = registry
       /\ locals' = locals]_vars

\* a call has returned through the fast path while a pin is attached
C15_Witness ==
  /\ pc = "ret"
  /\ log = <<>>
  /\ _changedFlags = 0
  /\ enabledPins # {}
  /\ \E c \in Pins : dueCount[c] >= 1

\* C16: the register is empty when the critical section is left, and a
\* lookForChanges call invokes the callback of a channel at most once and only
\* if a falling edge was handled on that channel since the previous call took
\* its copy.
C16_AtMostOnce ==
  /\ pc = "L118" => (_changedFlags = 0 /\ intsOff)
  /\ \A c \in Pins :
       /\ Cardinality(Entries(c, "onChange")) <= 1
       /\ Entries(c, "onChange") # {} => dueCount[c] >= 1

\* a further call has returned without any invocation, after the pulse of a
\* channel with an accepting filter was taken by an earlier call
C16_Witness ==
  /\ pc = "ret"
  /\ log = <<>>
  /\ \E c \in LowPins :
       /\ c \in enabledPins
       /\ _filterFunctions[c] = "any"
       /\ lastDur[c] # NoStamp
       /\ _currentValues[c] = lastDur[c]
       /\ undelivered[c] = 0
       /\ dueCount[c] = 0

\* C17: the ISR's handling of a rising edge on channel c sets _waveStarts[c]
\* to the time of the edge and changes nothing else (not _changedFlags, not
\* _currentValues, not another channel's _waveStarts, not the function
\* arrays); a dirty bit becomes set only in a step that handles a falling edge
\* on its channel.
C17_RisingOnlyStarts ==
  [][\A c \in Pins :
       /\ RisingOn(c) =>
            /\ _waveStarts' = [_waveStarts EXCEPT ![c] = clock']
            /\ _changedFlags' = _changedFlags
            /\ _currentValues' = _currentValues
            /\ registry' = registry
       /\ \A w \in IntWidths :
            (~IsChanged(_changedFlags, c, w) /\ IsChanged(_changedFlags', c, w))
              => FallingOn(c)]_vars

\* a rising edge has just been handled on a channel whose previous pulse was
\* completed and collected: the start of that pulse is overwritten
C17_Witness ==
  \E c \in LowPins :
    /\ level[c] = 1
    /\ _waveStarts[c] = clock
    /\ lastDur[c] # NoStamp
    /\ _waveStarts[c] # ULSub(clock, lastDur[c])
    /\ _currentValues[c] = lastDur[c]
    /\ _changedFlags = 0

\* the sum of two unsigned long values, modulo 2^32
ULPlus(a, b) ==
  LET lo == a[2] + b[2]
      hi == a[1] + b[1] + (lo \div WORD)
  IN  <<hi % WORD, lo % WORD>>

\* C18: the value stored on a falling edge of channel c is an unsigned 32-bit
\* number which, added to _waveStarts[c] modulo 2^32, gives the time of the
\* edge, also when the clock has wrapped around since the rising edge.
C18_ModularDuration ==
  [][\A c \in Pins :
       FallingOn(c) =>
         LET v == _currentValues'[c]
         IN  /\ v[1] \in 0 .. (WORD - 1)
             /\ v[2] \in 0 .. (WORD - 1)
             /\ ULPlus(_waveStarts[c], v) = clock']_vars

\* the pulse of a channel began before the clock wrapped and ended after it,
\* and its stored duration is the short time between the two edges
C18_Witness ==
  \E c \in Pins :
    /\ level[c] = 0
    /\ riseStamp[c] # NoStamp
    /\ _waveStarts[c] = riseStamp[c]
    /\ _waveStarts[c][1] = WORD - 1
    /\ clock[1] = 0
    /\ _currentValues[c][1] = 0
    /\ _currentValues[c][2] \in 1 .. MaxElapsed
    /\ _currentValues[c] = lastDur[c]

\* C19: a lookForChanges call invokes the callback of channel c only if a
\* falling edge was handled on c after the latest detach(c) and since the
\* previous call took its copy: a pulse completed before detach(c) is not
\* delivered to the callback of a later attach(c).
C19_NoStaleDelivery ==
  \A c \in Pins : Entries(c, "onChange") # {} => dueFresh[c]

\* C20: every value passed to the filter of channel c is the time of a
\* falling edge minus the time of a rising edge on c that was handled after
\* c's interrupt was last enabled; a falling edge that is the first edge after
\* attach yields no delivered value.
C20_MeasuredFromOwnRise ==
  \A i \in 1 .. Len(log) :
    log[i].kind = "filter" =>
      /\ dueGood[log[i].pin] # NoStamp
      /\ log[i].arg = dueGood[log[i].pin]

====
